---- MODULE Spec2Model ----
(***************************************************************************)
(* Membership-renewal notification logic of NotificationService            *)
(* (src/src/services/notificationService.ts): the day computation, the     *)
(* three-threshold classification, the durable record write, the optional  *)
(* local alert, and the sweep over all members.                            *)
(*                                                                         *)
(* Time is counted in ticks; TicksPerDay ticks make one day, so the        *)
(* rounding of Math.ceil is visible.  The sweeps of one behaviour run      *)
(* within one tick.  Every `await` of an external call                     *)
(* (listing, record write, alert scheduling) is a suspension point: the    *)
(* call is started by one action and returns, with success or failure, in  *)
(* another.                                                                *)
(***************************************************************************)
EXTENDS Integers, Sequences, FiniteSets, Bags

\* ---- bounds of the model ----
NumMembers == 2
MaxSweeps == 2
MaxNow == 1

\* ---- program constants ----
TicksPerDay == 2
UrgentDays == 7
ReminderDays == 30

\* membership end dates (in ticks) the store may hold
EndDates == {-3, 1, 15, 61}
\* a membership marked expired has its end date in the past
PastEndDates == {-3}

VARIABLES
    now,        \* the clock read by new Date(), in ticks
    store,      \* the members collection of the durable store
    records,    \* the notifications collection of the durable store (a bag)
    alerts,     \* requests made to the local alert scheduler (a bag)
    pc,         \* where the sweep is: idle, listing, loop, write, alert
    members,    \* the array returned by getAllMembers
    idx,        \* position of the for-of iterator in members
    cur,        \* the member being processed and its notification
    inflight,   \* external calls started and not yet returned
    sweep,      \* number of sweeps started
    raised,     \* an error left checkAllMembersForRenewal
    before,     \* history: records and alerts when the current sweep started
    attempts,   \* history: sendMembershipRenewalNotification calls of the current sweep
    calls,      \* history: external calls of the current sweep, with their outcome
    errors      \* history: errors thrown in the current sweep and the frame that caught them

vars == <<now, store, records, alerts, pc, members, idx, cur, inflight,
          sweep, raised, before, attempts, calls, errors>>

NoCur == [idx |-> 0]
NoArg == [userId |-> 0]

\* ---- pure functions ----

\* Math.ceil(a / b) for b > 0
CeilDiv(a, b) == -((-a) \div b)

calculateDaysUntilExpiry(membershipEndDate, today) ==
    CeilDiv(membershipEndDate - today, TicksPerDay)

ClassifyOffByOne(daysUntilExpiry) ==
    IF daysUntilExpiry < 0 THEN "EXPIRED"
    ELSE IF daysUntilExpiry < UrgentDays THEN "URGENT"
    ELSE IF daysUntilExpiry < ReminderDays THEN "REMINDER"
    ELSE "NONE"

ClassifyNoUpperLimit(daysUntilExpiry) ==
    IF daysUntilExpiry <= 0 THEN "EXPIRED"
    ELSE IF daysUntilExpiry <= UrgentDays THEN "URGENT"
    ELSE "REMINDER"

\* the if / else-if chain of sendMembershipRenewalNotification
Classify(daysUntilExpiry) ==
    IF daysUntilExpiry <= 0 THEN "EXPIRED"
    ELSE IF daysUntilExpiry <= UrgentDays THEN "URGENT"
    ELSE IF daysUntilExpiry <= ReminderDays THEN "REMINDER"
    ELSE "NONE"

RecordedDaysFloor(kind, daysUntilExpiry, endDate, today) ==
    IF kind = "EXPIRED" THEN 0 ELSE (endDate - today) \div TicksPerDay

\* data.daysUntilExpiry of the notification each create function builds
RecordedDays(kind, daysUntilExpiry, endDate, today) ==
    IF kind = "EXPIRED" THEN 0 ELSE daysUntilExpiry

NeedsAlertAlways(kind) == TRUE

\* the create functions that go on to scheduleLocalNotification
NeedsAlert(kind) == kind \in {"EXPIRED", "URGENT"}

IsActiveAny(member) == TRUE

\* the status test of the sweep loop
IsActive(member) == member.membershipStatus = "active"

CatchFrameNoSendTry(site) ==
    CASE site = "alert" -> "alertTry"
      [] site = "write" -> "sweepTry"
      [] site = "list"  -> "sweepTry"

CatchFrameNoAlertTry(site) ==
    CASE site = "alert" -> "sweepTry"
      [] site = "write" -> "sendTry"
      [] site = "list"  -> "sweepTry"

CatchFrameNoSweepTry(site) ==
    CASE site = "alert" -> "alertTry"
      [] site = "write" -> "sendTry"
      [] site = "list"  -> "caller"

\* the innermost try block around each external call
CatchFrame(site) ==
    CASE site = "alert" -> "alertTry"
      [] site = "write" -> "sendTry"
      [] site = "list"  -> "sweepTry"

SuspendAtNoAwait(site) ==
    CASE site = "list"  -> "listing"
      [] site = "write" -> "loop"
      [] site = "alert" -> "alert"

\* where the sweep waits after starting an external call
SuspendAt(site) ==
    CASE site = "list"  -> "listing"
      [] site = "write" -> "write"
      [] site = "alert" -> "alert"

\* ---- initial state ----

MemberRecords ==
    [id : 1..NumMembers, membershipStatus : {"active"}, membershipEndDate : EndDates]
    \cup [id : 1..NumMembers, membershipStatus : {"expired"}, membershipEndDate : PastEndDates]

Init ==
    /\ now \in 0..MaxNow
    /\ store \in {s \in [1..NumMembers -> MemberRecords] :
                    \A i \in 1..NumMembers : s[i].id = i}
    /\ records = EmptyBag
    /\ alerts = EmptyBag
    /\ pc = "idle"
    /\ members = <<>>
    /\ idx = 0
    /\ cur = NoCur
    /\ inflight = <<>>
    /\ sweep = 0
    /\ raised = FALSE
    /\ before = [records |-> EmptyBag, alerts |-> EmptyBag]
    /\ attempts = <<>>
    /\ calls = <<>>
    /\ errors = <<>>

\* ---- actions ----

\* checkAllMembersForRenewal is called: getAllMembers is started
StartSweep ==
    /\ pc = "idle"
    /\ sweep < MaxSweeps
    /\ sweep' = sweep + 1
    /\ inflight' = Append(inflight, [site |-> "list", idx |-> 0])
    /\ pc' = SuspendAt("list")
    /\ members' = <<>>
    /\ idx' = 0
    /\ cur' = NoCur
    /\ before' = [records |-> records, alerts |-> alerts]
    /\ attempts' = <<>>
    /\ calls' = <<>>
    /\ errors' = <<>>
    /\ UNCHANGED <<now, store, records, alerts, raised>>

\* what a thrown error does to the sweep, by the frame that catches it
Thrown(site, i) ==
    LET frame == CatchFrame(site) IN
    /\ errors' = Append(errors, [site |-> site, idx |-> i, caughtBy |-> frame])
    /\ cur' = NoCur
    /\ IF frame \in {"alertTry", "sendTry"}
          THEN /\ pc' = "loop"
               /\ UNCHANGED <<raised, idx>>
          ELSE /\ pc' = "idle"
               /\ raised' = (raised \/ frame = "caller")
               /\ UNCHANGED idx

\* getAllMembers returns the members or fails
ListReturn ==
    /\ pc = "listing"
    /\ inflight # <<>> /\ Head(inflight).site = "list"
    /\ inflight' = Tail(inflight)
    /\ \E ok \in BOOLEAN :
         /\ calls' = Append(calls, [site |-> "list", idx |-> 0, ok |-> ok, arg |-> NoArg])
         /\ IF ok
               THEN /\ members' = store
                    /\ idx' = 1
                    /\ pc' = "loop"
                    /\ UNCHANGED <<raised, errors, cur>>
               ELSE /\ Thrown("list", 0)
                    /\ UNCHANGED members
    /\ UNCHANGED <<now, store, records, alerts, sweep, before, attempts>>

\* the notification object a create function builds for a member
Notification(member, kind, daysUntilExpiry, today) ==
    [userId |-> member.id,
     kind |-> kind,
     createdAt |-> today,
     membershipEndDate |-> member.membershipEndDate,
     daysUntilExpiry |-> RecordedDays(kind, daysUntilExpiry, member.membershipEndDate, today)]

\* the title and body handed to scheduleLocalNotification
AlertOf(notification) ==
    [userId |-> notification.userId, kind |-> notification.kind]

\* one turn of the for-of loop, up to its first await or to the loop's end
LoopStep ==
    /\ pc = "loop"
    /\ IF idx > Len(members)
          THEN /\ pc' = "idle"
               /\ UNCHANGED <<idx, cur, inflight, attempts>>
          ELSE LET member == members[idx]
                   days == calculateDaysUntilExpiry(member.membershipEndDate, now)
                   kind == Classify(days)
               IN  /\ idx' = idx + 1
                   /\ IF ~IsActive(member)
                         THEN UNCHANGED <<pc, cur, inflight, attempts>>
                         ELSE /\ attempts' = Append(attempts,
                                   [idx |-> idx, at |-> now,
                                    membershipEndDate |-> member.membershipEndDate,
                                    daysLeft |-> days, kind |-> kind])
                              /\ IF kind = "NONE"
                                    THEN UNCHANGED <<pc, cur, inflight>>
                                    ELSE /\ cur' = [idx |-> idx,
                                                    notification |->
                                                        Notification(member, kind, days, now)]
                                         /\ inflight' = Append(inflight,
                                               [site |-> "write", idx |-> idx])
                                         /\ pc' = SuspendAt("write")
    /\ UNCHANGED <<now, store, records, alerts, members, sweep, raised, before,
                   calls, errors>>

\* firebaseService.createNotification returns or fails
WriteReturn ==
    /\ pc = "write"
    /\ inflight # <<>> /\ Head(inflight).site = "write"
    /\ \E ok \in BOOLEAN :
         /\ calls' = Append(calls, [site |-> "write", idx |-> cur.idx, ok |-> ok,
                                 arg |-> cur.notification])
         /\ IF ok
               THEN /\ records' = records (+) SetToBag({cur.notification})
                    /\ IF NeedsAlert(cur.notification.kind)
                          THEN /\ alerts' = alerts (+) SetToBag({AlertOf(cur.notification)})
                               /\ inflight' = Append(Tail(inflight),
                                     [site |-> "alert", idx |-> cur.idx])
                               /\ pc' = SuspendAt("alert")
                               /\ UNCHANGED cur
                          ELSE /\ inflight' = Tail(inflight)
                               /\ pc' = "loop"
                               /\ cur' = NoCur
                               /\ UNCHANGED alerts
                    /\ UNCHANGED <<raised, errors, idx>>
               ELSE /\ inflight' = Tail(inflight)
                    /\ Thrown("write", cur.idx)
                    /\ UNCHANGED <<records, alerts>>
    /\ UNCHANGED <<now, store, members, sweep, before, attempts>>

\* Notifications.scheduleNotificationAsync returns or fails
AlertReturn ==
    /\ pc = "alert"
    /\ inflight # <<>> /\ Head(inflight).site = "alert"
    /\ inflight' = Tail(inflight)
    /\ \E ok \in BOOLEAN :
         /\ calls' = Append(calls, [site |-> "alert", idx |-> cur.idx, ok |-> ok,
                                 arg |-> AlertOf(cur.notification)])
         /\ IF ok
               THEN /\ pc' = "loop"
                    /\ cur' = NoCur
                    /\ UNCHANGED <<raised, errors, idx>>
               ELSE Thrown("alert", cur.idx)
    /\ UNCHANGED <<now, store, records, alerts, members, sweep, before, attempts>>

Next ==
    \/ StartSweep
    \/ ListReturn
    \/ LoopStep
    \/ WriteReturn
    \/ AlertReturn

Spec == Init /\ [][Next]_vars

\* every external call eventually returns or fails, and the event loop runs
\* the continuation of the sweep
FairSpec ==
    /\ Spec
    /\ WF_vars(ListReturn)
    /\ WF_vars(LoopStep)
    /\ WF_vars(WriteReturn)
    /\ WF_vars(AlertReturn)

\* ---- what the histories say about the current sweep ----

Completed == pc = "idle" /\ sweep > 0
ListOk == calls # <<>> /\ calls[1].site = "list" /\ calls[1].ok
ListFailed == calls # <<>> /\ calls[1].site = "list" /\ ~calls[1].ok

AttemptsOf(i) == {k \in DOMAIN attempts : attempts[k].idx = i}
CallsOf(site, i) == {k \in DOMAIN calls : calls[k].site = site /\ calls[k].idx = i}

\* copies of a record or alert request added since the sweep started
NewRecords(r) == CopiesIn(r, records) - CopiesIn(r, before.records)
NewAlerts(a) == CopiesIn(a, alerts) - CopiesIn(a, before.alerts)
NewAlertsFor(u) ==
    NewAlerts([userId |-> u, kind |-> "EXPIRED"])
    + NewAlerts([userId |-> u, kind |-> "URGENT"])
    + NewAlerts([userId |-> u, kind |-> "REMINDER"])

\* d is ceil(diff / TicksPerDay)
IsCeilDays(d, diff) == (d - 1) * TicksPerDay < diff /\ diff <= d * TicksPerDay

\* C1: for every member passed to sendMembershipRenewalNotification, with
\* daysLeft = ceil((membershipEndDate - now) / 1 day), the notification
\* produced is EXPIRED when daysLeft <= 0, URGENT when 0 < daysLeft <= 7,
\* REMINDER when 7 < daysLeft <= 30 and none when daysLeft > 30.
C1_Classification ==
    /\ \A k \in DOMAIN attempts :
         LET a == attempts[k]
             d == a.daysLeft
         IN  /\ IsCeilDays(d, a.membershipEndDate - a.at)
             /\ (a.kind = "EXPIRED") = (d <= 0)
             /\ (a.kind = "URGENT") = (0 < d /\ d <= 7)
             /\ (a.kind = "REMINDER") = (7 < d /\ d <= 30)
             /\ (a.kind = "NONE") = (d > 30)
             /\ a.kind = "NONE" => CallsOf("write", a.idx) = {}
             /\ \A c \in CallsOf("write", a.idx) : calls[c].arg.kind = a.kind
    /\ \A c \in DOMAIN calls : calls[c].site = "write" => AttemptsOf(calls[c].idx) # {}

C1_Witness ==
    /\ \E k \in DOMAIN attempts :
         /\ attempts[k].daysLeft = 7 /\ attempts[k].kind = "URGENT"
         /\ CallsOf("write", attempts[k].idx) # {}
    /\ \E k \in DOMAIN attempts :
         /\ attempts[k].daysLeft = 30 /\ attempts[k].kind = "REMINDER"
         /\ CallsOf("write", attempts[k].idx) # {}

\* C2 as stated: every record written by the renewal classifier has
\* data.daysUntilExpiry equal to the daysLeft computed for that member at
\* creation time, for every end date including end dates in the past.
C2_RecordCarriesDaysLeft ==
    \A c \in DOMAIN calls :
        (calls[c].site = "write" /\ calls[c].ok) =>
            \A k \in AttemptsOf(calls[c].idx) :
                calls[c].arg.daysUntilExpiry = attempts[k].daysLeft

\* C2 as amended: every URGENT or REMINDER record written has
\* data.daysUntilExpiry equal to the daysLeft computed for that member at
\* creation time; every EXPIRED record has data.daysUntilExpiry 0, whatever
\* the zero or negative daysLeft computed for it.
C2_RecordCarriesClampedDaysLeft ==
    \A c \in DOMAIN calls :
        (calls[c].site = "write" /\ calls[c].ok) =>
            /\ AttemptsOf(calls[c].idx) # {}
            /\ NewRecords(calls[c].arg) >= 1
            /\ \A k \in AttemptsOf(calls[c].idx) :
                 LET d == attempts[k].daysLeft IN
                 /\ IsCeilDays(d, attempts[k].membershipEndDate - attempts[k].at)
                 /\ calls[c].arg.daysUntilExpiry = (IF d <= 0 THEN 0 ELSE d)

C2_Witness ==
    /\ \E c \in DOMAIN calls :
         /\ calls[c].site = "write" /\ calls[c].ok
         /\ calls[c].arg.kind = "EXPIRED"
         /\ \E k \in AttemptsOf(calls[c].idx) : attempts[k].daysLeft < 0
    /\ \E c \in DOMAIN calls :
         /\ calls[c].site = "write" /\ calls[c].ok
         /\ calls[c].arg.kind = "URGENT"
         /\ calls[c].arg.daysUntilExpiry = 7

\* C3: a second sweep with the member data and the current day unchanged adds
\* no second renewal notification record for a member who already has one
\* (two records of one member made at the same time are equal records).
C3_IdempotentAcrossSweeps ==
    \A r \in BagToSet(records) : CopiesIn(r, records) <= 1

\* C4: a failed record write for member A does not prevent the record of a
\* later member B of the same sweep: B is still classified, its write is
\* attempted and, when that write succeeds, B's record is in the store at the
\* end of the sweep.
C4_WriteFailureIsolated ==
    (Completed /\ ListOk) =>
        \A c \in DOMAIN calls :
            (calls[c].site = "write" /\ ~calls[c].ok) =>
                \A j \in (calls[c].idx + 1)..Len(store) :
                    store[j].membershipStatus = "active" =>
                        /\ AttemptsOf(j) # {}
                        /\ \A k \in AttemptsOf(j) :
                             attempts[k].daysLeft <= 30 =>
                                 /\ CallsOf("write", j) # {}
                                 /\ \A w \in CallsOf("write", j) :
                                      calls[w].ok =>
                                          /\ calls[w].arg.userId = store[j].id
                                          /\ NewRecords(calls[w].arg) >= 1

C4_Witness ==
    /\ Completed
    /\ \E a \in CallsOf("write", 1) : ~calls[a].ok
    /\ \E b \in CallsOf("write", 2) :
         calls[b].ok /\ NewRecords(calls[b].arg) >= 1

\* C5: a failure of the local alert scheduler is fully swallowed: the member's
\* record stays in the store, the error is caught before it reaches the caller
\* of sendMembershipRenewalNotification, and the sweep goes on with the next
\* member.
C5_AlertFailureSwallowed ==
    \A c \in DOMAIN calls :
        (calls[c].site = "alert" /\ ~calls[c].ok) =>
            /\ \E w \in CallsOf("write", calls[c].idx) :
                 calls[w].ok /\ NewRecords(calls[w].arg) >= 1
            /\ \A e \in DOMAIN errors :
                 errors[e].site = "alert" => errors[e].caughtBy \in {"alertTry", "sendTry"}
            /\ ~raised
            /\ pc = "idle" =>
                 \A j \in (calls[c].idx + 1)..Len(store) :
                     store[j].membershipStatus = "active" => AttemptsOf(j) # {}

C5_Witness ==
    /\ Completed
    /\ \E c \in CallsOf("alert", 1) : ~calls[c].ok
    /\ AttemptsOf(2) # {}

\* C6: when the record write succeeds, an EXPIRED or URGENT classification
\* makes exactly one alert-schedule request for that member and a REMINDER
\* classification makes none.
C6_AlertRequests ==
    /\ \A c \in DOMAIN calls :
         (calls[c].site = "write" /\ calls[c].ok) =>
             LET n == calls[c].arg IN
             /\ NewAlertsFor(n.userId) = (IF n.kind \in {"EXPIRED", "URGENT"} THEN 1 ELSE 0)
             /\ NewAlerts([userId |-> n.userId, kind |-> n.kind])
                    = (IF n.kind \in {"EXPIRED", "URGENT"} THEN 1 ELSE 0)
             /\ NewRecords(n) >= 1
    /\ \A c \in DOMAIN calls :
         (calls[c].site = "alert") =>
             \E w \in CallsOf("write", calls[c].idx) :
                 calls[w].ok /\ calls[w].arg.kind \in {"EXPIRED", "URGENT"}

C6_Witness ==
    /\ Completed
    /\ \E c \in DOMAIN calls :
         /\ calls[c].site = "write" /\ calls[c].ok /\ calls[c].arg.kind = "REMINDER"
         /\ NewAlertsFor(calls[c].arg.userId) = 0
    /\ \E c \in DOMAIN calls :
         /\ calls[c].site = "write" /\ calls[c].ok /\ calls[c].arg.kind = "URGENT"
         /\ NewAlertsFor(calls[c].arg.userId) = 1

\* C7: for a member whose daysLeft is greater than 30,
\* sendMembershipRenewalNotification has no side effect: no record is written
\* and no alert is requested for that member, and no external call is made.
C7_NoneNoSideEffect ==
    \A k \in DOMAIN attempts :
        attempts[k].daysLeft > 30 =>
            LET i == attempts[k].idx IN
            /\ \A c \in DOMAIN calls : calls[c].idx # i
            /\ \A f \in DOMAIN inflight : inflight[f].idx # i
            /\ cur.idx # i
            /\ NewAlertsFor(store[i].id) = 0
            /\ \A r \in BagToSet(records) : r.userId = store[i].id => NewRecords(r) = 0

C7_Witness ==
    /\ Completed
    /\ \E k \in DOMAIN attempts : attempts[k].daysLeft > 30
    /\ \E c \in DOMAIN calls : calls[c].site = "write" /\ calls[c].ok

\* C8: when listing the members succeeds, a sweep attempts classification
\* exactly once for each member whose membershipStatus is active, whatever
\* fails for other members, never attempts a member that is not active and
\* never attempts a member twice.
C8_EachActiveMemberOnce ==
    /\ \A i \in 1..Len(store) :
         /\ Cardinality(AttemptsOf(i)) <= 1
         /\ store[i].membershipStatus # "active" => AttemptsOf(i) = {}
    /\ \A k \in DOMAIN attempts : attempts[k].idx \in 1..Len(store)
    /\ (Completed /\ ListOk) =>
         \A i \in 1..Len(store) :
             store[i].membershipStatus = "active" => Cardinality(AttemptsOf(i)) = 1

C8_Witness ==
    /\ Completed /\ ListOk
    /\ errors # <<>>
    /\ \E i \in 1..Len(store) : store[i].membershipStatus # "active"
    /\ attempts # <<>>

\* C9: within one sweep the members are processed one after the other in the
\* order returned by the store: at most one external call is in flight at any
\* time, and every call of member i has returned before a call of a later
\* member starts.
C9_Sequential ==
    /\ Len(inflight) <= 1
    /\ \A k, l \in DOMAIN attempts : k < l => attempts[k].idx < attempts[l].idx
    /\ \A k, l \in DOMAIN calls : k < l => calls[k].idx <= calls[l].idx
    /\ \A f \in DOMAIN inflight :
         /\ \A c \in DOMAIN calls : calls[c].idx <= inflight[f].idx
         /\ inflight[f].site # "list" => AttemptsOf(inflight[f].idx) # {}
         /\ \A k \in DOMAIN attempts : attempts[k].idx <= inflight[f].idx

C9_Witness ==
    /\ Len(inflight) = 1
    /\ inflight[1].site = "write" /\ inflight[1].idx = 2
    /\ CallsOf("write", 1) # {}
    /\ CallsOf("alert", 1) # {}

\* C10: provided every external call eventually returns or fails, a started
\* sweep always reaches completion and never raises to its caller, whatever
\* fails; when the member listing fails the sweep completes having created no
\* record and requested no alert.
C10_SweepCompletes ==
    /\ (pc # "idle") ~> (pc = "idle")
    /\ [](~raised)
    /\ []((Completed /\ ListFailed) =>
            /\ records = before.records
            /\ alerts = before.alerts
            /\ attempts = <<>>
            /\ Len(calls) = 1)

C10_Witness ==
    /\ Completed /\ ListFailed
    /\ sweep = 2
    /\ records # EmptyBag

\* C11: an alert-schedule request is made for a member only after that
\* member's record write has succeeded: when the write of an EXPIRED or URGENT
\* member fails, no alert is requested for that member, the write is not
\* retried, and the failure is caught inside
\* sendMembershipRenewalNotification and does not reach the sweep loop.
C11_AlertOnlyAfterWrite ==
    /\ \A c \in DOMAIN calls :
         (calls[c].site = "write" /\ ~calls[c].ok) =>
             LET i == calls[c].idx IN
             /\ NewAlertsFor(store[i].id) = 0
             /\ CallsOf("alert", i) = {}
             /\ \A f \in DOMAIN inflight : inflight[f].idx # i
             /\ Cardinality(CallsOf("write", i)) = 1
             /\ \E e \in DOMAIN errors : errors[e].site = "write" /\ errors[e].idx = i
             /\ \A e \in DOMAIN errors :
                  (errors[e].site = "write" /\ errors[e].idx = i) =>
                      errors[e].caughtBy = "sendTry"
             /\ ~raised
    /\ \A c \in DOMAIN calls :
         calls[c].site = "alert" =>
             \E w \in CallsOf("write", calls[c].idx) : w < c /\ calls[w].ok
    /\ \A f \in DOMAIN inflight :
         inflight[f].site = "alert" =>
             \E w \in CallsOf("write", inflight[f].idx) : calls[w].ok
    /\ \A j \in 1..Len(store) :
         NewAlertsFor(store[j].id) <=
             Cardinality({w \in CallsOf("write", j) : calls[w].ok})

C11_Witness ==
    /\ Completed
    /\ \E c \in CallsOf("write", 1) :
         /\ ~calls[c].ok
         /\ calls[c].arg.kind \in {"EXPIRED", "URGENT"}
         /\ NewAlertsFor(calls[c].arg.userId) = 0
    /\ \E a \in CallsOf("alert", 2) : NewAlertsFor(calls[a].arg.userId) = 1

====
